---- MODULE Spec2Model ----
(***************************************************************************)
(* Model of the RAG document assistant backend: the three FastAPI handlers *)
(* of app/main.py (/upload, /query, /clear) over the process-wide handles  *)
(* vectorstore and rag_chain, the persistent collection they share, and    *)
(* RAGChain.ask of app/rag/chain.py (retrieval guard, context numbering,   *)
(* language rule, source list).                                            *)
(*                                                                         *)
(* app/rag/embeddings.py (EmbeddingsManager) is not part of the sources;   *)
(* its operations are modelled from section 4.3 of the specification.      *)
(***************************************************************************)
EXTENDS Integers, Sequences, FiniteSets, TLC

\* ---------------------------------------------------------------- bounds
MaxUploads == 2
MaxEntries == 3

\* ------------------------------------------------------- program constants
MAX_FILE_SIZE == 31457280
top_k == 3
PreviewLen == 200

\* Python's None, and a metadata key that is not present
None == "None"
NoKey == "NoKey"
Handle == "Handle"

\* the detail / answer strings of the program
NoDocumentsYet == "No documents uploaded yet"
NoRelevantInfo == "No relevant information found."
OnlyTxtPdf == "Only TXT and PDF files are supported"
FileEmpty == "Uploaded file is empty"
FileTooLarge == "File too large. Maximum allowed size is 30 MB."
InternalServerError == "Internal Server Error"
DefaultTenant == "streamlit_user"

\* bot.py LANGUAGES (non-ASCII entries transliterated)
LANGUAGES ==
  <<"Auto", "English", "Russkij", "Qazaqsha", "Francais", "Deutsch",
    "Espanol", "Zhongwen", "Nihongo">>

\* ------------------------------------------------------------- inputs
\* uploaded files: name, extension, size in bytes and the page_content
\* lengths of the chunks the loader and the chunker make of them
Files ==
  { [name |-> "a.txt", ext |-> ".txt", size |-> 1000, lens |-> <<250, 150>>],
    [name |-> "b.pdf", ext |-> ".pdf", size |-> 500, lens |-> <<150>>],
    [name |-> "c.doc", ext |-> ".doc", size |-> 500, lens |-> <<150>>],
    [name |-> "e.txt", ext |-> ".txt", size |-> 0, lens |-> <<>>],
    [name |-> "big.pdf", ext |-> ".pdf", size |-> MAX_FILE_SIZE + 1,
     lens |-> <<150>>] }

\* values of the optional user_id parameter
UserIds == {None, "", "t1", "t2", DefaultTenant}

\* Python truthiness of an Optional[str]
Truthy(user_id) == user_id # None /\ user_id # ""

VARIABLES collExists, entries, vectorstore, rag_chain, apiKey, nextId,
          uploads, resp

vars == <<collExists, entries, vectorstore, rag_chain, apiKey, nextId,
          uploads, resp>>

\* ------------------------------------------------------------- helpers
Min(a, b) == IF a < b THEN a ELSE b

Range(s) == { s[i] : i \in 1..Len(s) }

\* the response of a handler (or the outcome of a direct call of ask); the
\* fields a handler does not produce keep these values
NoResp ==
  [op |-> "start", status |-> 0, detail |-> "", answer |-> "",
   sources |-> <<>>, docs |-> <<>>, labels |-> <<>>, rule |-> <<>>,
   language |-> "", user |-> None, branch |-> "", cause |-> "",
   chunks |-> <<>>, generated |-> FALSE]

\* --------------------------------------------- EmbeddingsManager (sec. 4.3)
\* load(collection_name): "ok", or the error it raises
load_vectorstore(backendUp) ==
  IF ~backendUp THEN "BackendError"
  ELSE IF ~collExists THEN "IndexNotFoundError"
  ELSE "ok"

\* create(chunks, collection_name): refuses a collection that has content
create_vectorstore(chunks) ==
  IF collExists /\ entries # <<>>
    THEN [raised |-> "IndexAlreadyExistsError", exists |-> collExists,
          entries |-> entries]
    ELSE [raised |-> "", exists |-> TRUE, entries |-> chunks]

\* add(chunks): appends to the open index
add_documents(chunks) == entries \o chunks

\* delete(filter = {"user_id": u}): removes the matching entries
delete_documents(u) == SelectSeq(entries, LAMBDA e : e.user # u)

\* similarity_search(question, k): the possible results, up to k distinct
\* entries of the collection in some order of similarity
similarity_search(k) ==
  LET n == Len(entries)
      idx == UNION { [1..m -> 1..n] : m \in 0..Min(k, n) }
  IN { [i \in DOMAIN f |-> entries[f[i]]] :
         f \in { g \in idx : \A i, j \in DOMAIN g : i # j => g[i] # g[j] } }

\* ------------------------------------------------------ upload pipeline
\* loader.load_document + chunker.split_documents + the user_id tagging
MakeChunks(file, user_id, firstId) ==
  [i \in 1..Len(file.lens) |->
     [id |-> firstId + i - 1,
      source |-> file.name,
      user |-> IF Truthy(user_id) THEN user_id ELSE NoKey,
      len |-> file.lens[i]]]

\* RAGChain.__init__: needs OPENAI_API_KEY
RAGChainInit == IF apiKey THEN Handle ELSE "ValueError"

\* ------------------------------------------------------------ RAGChain
\* doc.metadata.get("source", "unknown")
SourceOf(doc) == IF doc.source = NoKey THEN "unknown" ELSE doc.source

\* doc.page_content[:200], as (chunk, number of characters kept)
Preview(doc) == [chunk |-> doc.id, len |-> Min(doc.len, PreviewLen)]

\* the numbered context entries "[i] Source: <source>\n<page_content>"
_build_context(docs) ==
  [i \in 1..Len(docs) |->
     [label |-> i, source |-> SourceOf(docs[i]), chunk |-> docs[i].id]]

\* the language rule put into the system prompt
lang_rule(language) ==
  IF language = "English" THEN [kind |-> "strict", language |-> "English"]
  ELSE IF language = "Russkij" THEN [kind |-> "strict", language |-> "Russkij"]
  ELSE [kind |-> "same_as_question", language |-> ""]

\* the loop that builds the source list: seen, sid, sources
RECURSIVE SourcesLoop(_, _, _, _, _)
SourcesLoop(docs, i, seen, sid, sources) ==
  IF i > Len(docs) THEN sources
  ELSE LET src == SourceOf(docs[i])
       IN IF src \in seen
            THEN SourcesLoop(docs, i + 1, seen, sid, sources)
            ELSE SourcesLoop(docs, i + 1, seen \cup {src}, sid + 1,
                   Append(sources,
                     [id |-> sid, source |-> src, preview |-> Preview(docs[i])]))

\* (variant: the citation ids start at 0)
BuildSources_m(docs) == SourcesLoop(docs, 1, {}, 0, <<>>)

BuildSources(docs) == SourcesLoop(docs, 1, {}, 1, <<>>)

\* (variant: the guard is missing)
EmptyRetrieval_m(docs) == FALSE

\* the guard "if not docs"
EmptyRetrieval(docs) == docs = <<>>

\* RAGChain.ask(question, language) for one retrieval result and one
\* outcome of the chat completion call
ask(docs, language, llmOk) ==
  IF EmptyRetrieval(docs)
    THEN [NoResp EXCEPT !.op = "ask", !.status = 200, !.language = language,
            !.answer = NoRelevantInfo, !.sources = <<>>]
    ELSE IF ~llmOk
      THEN [NoResp EXCEPT !.op = "ask", !.status = 500, !.docs = docs,
              !.generated = TRUE, !.detail = "GenerationProviderError"]
      ELSE [NoResp EXCEPT !.op = "ask", !.status = 200, !.language = language,
              !.docs = docs, !.labels = _build_context(docs),
              !.rule = <<lang_rule(language)>>, !.generated = TRUE,
              !.answer = "generated", !.sources = BuildSources(docs)]

\* ---------------------------------------------------------------- Init
Init ==
  /\ collExists = FALSE
  /\ entries = <<>>
  /\ vectorstore = None
  /\ rag_chain = None
  /\ apiKey \in BOOLEAN
  /\ nextId = 1
  /\ uploads = 0
  /\ resp = NoResp

\* ------------------------------------------------------------- /upload
\* the three rejections before any processing
UploadRejected ==
  \E file \in Files :
    /\ \/ file.ext \notin {".txt", ".pdf"}
       \/ file.size = 0
       \/ file.size > MAX_FILE_SIZE
    /\ resp' = [NoResp EXCEPT !.op = "upload", !.status = 400,
                  !.detail = IF file.ext \notin {".txt", ".pdf"} THEN OnlyTxtPdf
                             ELSE IF file.size = 0 THEN FileEmpty
                             ELSE FileTooLarge]
    /\ UNCHANGED <<collExists, entries, vectorstore, rag_chain, apiKey,
                   nextId, uploads>>

\* (variant: a loaded collection is always rebuilt from the new chunks)
UploadStore_m(chunks, backendUp) ==
  LET loaded == load_vectorstore(backendUp)
      created == create_vectorstore(chunks)
  IN IF loaded = "ok"
       THEN [exists |-> TRUE, entries |-> chunks,
             vs |-> Handle, branch |-> "load_create", raised |-> ""]
       ELSE IF created.raised # ""
              THEN [exists |-> collExists, entries |-> entries,
                    vs |-> vectorstore, branch |-> "except_create",
                    raised |-> created.raised]
              ELSE [exists |-> created.exists, entries |-> created.entries,
                    vs |-> Handle, branch |-> "except_create", raised |-> ""]

\* the vectorstore logic: the index after the try/except, the handle, the
\* branch taken and the error that leaves the handler, if any
UploadStore(chunks, backendUp) ==
  LET loaded == load_vectorstore(backendUp)
      created == create_vectorstore(chunks)
  IN IF loaded = "ok"
       THEN IF Len(entries) = 0
              THEN [exists |-> created.exists, entries |-> created.entries,
                    vs |-> Handle, branch |-> "load_create", raised |-> ""]
              ELSE [exists |-> collExists, entries |-> add_documents(chunks),
                    vs |-> Handle, branch |-> "load_add", raised |-> ""]
       ELSE IF created.raised # ""
              THEN [exists |-> collExists, entries |-> entries,
                    vs |-> vectorstore, branch |-> "except_create",
                    raised |-> created.raised]
              ELSE [exists |-> created.exists, entries |-> created.entries,
                    vs |-> Handle, branch |-> "except_create", raised |-> ""]

upload_document ==
  \E file \in Files, user_id \in UserIds, backendUp \in BOOLEAN :
    /\ file.ext \in {".txt", ".pdf"}
    /\ file.size # 0
    /\ file.size <= MAX_FILE_SIZE
    /\ uploads < MaxUploads
    /\ Len(entries) + Len(file.lens) <= MaxEntries
    /\ LET chunks == MakeChunks(file, user_id, nextId)
           st == UploadStore(chunks, backendUp)
           chain == RAGChainInit
       IN /\ collExists' = st.exists
          /\ entries' = st.entries
          /\ vectorstore' = st.vs
          /\ rag_chain' = IF st.raised = "" /\ chain = Handle
                            THEN Handle ELSE rag_chain
          /\ nextId' = IF st.raised = "" THEN nextId + Len(chunks) ELSE nextId
          /\ uploads' = IF st.raised = "" THEN uploads + 1 ELSE uploads
          /\ resp' = IF st.raised # ""
                       THEN [NoResp EXCEPT !.op = "upload", !.status = 500,
                               !.detail = InternalServerError,
                               !.cause = st.raised, !.branch = st.branch,
                               !.chunks = chunks]
                     ELSE IF chain # Handle
                       THEN [NoResp EXCEPT !.op = "upload", !.status = 500,
                               !.detail = InternalServerError,
                               !.cause = chain, !.branch = st.branch,
                               !.chunks = chunks]
                       ELSE [NoResp EXCEPT !.op = "upload", !.status = 200,
                               !.detail = "Document processed successfully",
                               !.branch = st.branch, !.chunks = chunks]
    /\ UNCHANGED apiKey

\* -------------------------------------------------------------- /query
\* (question, language and user_id of the request reach no state: the
\* handler ends at the guard or at the call of ask)
query_rag ==
  \E backendUp \in BOOLEAN :
    LET loaded == IF vectorstore = None THEN load_vectorstore(backendUp)
                  ELSE "skipped"
        vs == IF loaded = "ok" THEN Handle ELSE vectorstore
        chain == IF loaded = "ok" /\ RAGChainInit = Handle THEN Handle
                 ELSE rag_chain
    IN /\ vectorstore' = vs
       /\ rag_chain' = chain
       /\ resp' = IF chain = None
                    THEN [NoResp EXCEPT !.op = "query", !.status = 400,
                            !.detail = NoDocumentsYet, !.cause = loaded]
                    \* ask(question=, language=, user_id=): ask takes no
                    \* user_id, the call raises TypeError
                    ELSE [NoResp EXCEPT !.op = "query", !.status = 500,
                            !.detail = InternalServerError,
                            !.cause = "TypeError"]
       /\ UNCHANGED <<collExists, entries, apiKey, nextId, uploads>>

\* -------------------------------------------------------------- /clear
clear_documents ==
  \E user_id \in UserIds, backendUp \in BOOLEAN, deleteOk \in BOOLEAN :
    LET loaded == IF vectorstore = None THEN load_vectorstore(backendUp)
                  ELSE "skipped"
        tenant == IF Truthy(user_id) THEN user_id ELSE DefaultTenant
    IN /\ vectorstore' = IF loaded = "ok" THEN Handle ELSE vectorstore
       /\ IF loaded \notin {"ok", "skipped"}
            THEN /\ resp' = [NoResp EXCEPT !.op = "clear", !.status = 200,
                               !.detail = "Nothing to clear", !.user = user_id,
                               !.cause = loaded]
                 /\ UNCHANGED entries
          ELSE IF ~deleteOk
            \* the except branch uses logger, which main.py never defines
            THEN /\ resp' = [NoResp EXCEPT !.op = "clear", !.status = 500,
                               !.detail = InternalServerError,
                               !.user = user_id, !.cause = "NameError"]
                 /\ UNCHANGED entries
            ELSE /\ resp' = [NoResp EXCEPT !.op = "clear", !.status = 200,
                               !.detail = "Documents cleared successfully",
                               !.user = user_id]
                 /\ entries' = delete_documents(tenant)
       /\ UNCHANGED <<collExists, rag_chain, apiKey, nextId, uploads>>

\* ------------------------------------------------- RAGChain.ask, direct
\* ask(question, language) called on the chain the process holds; the
\* chat completion call, when it is reached, succeeds or raises (what the
\* caller sees of a raise does not depend on the language).  In ask the
\* rule depends on the language alone and the context and the sources on
\* the retrieval alone, so the languages other than "Auto" are tried with
\* the retrievals of at most one chunk, "Auto" with all of them.
Ask ==
  \E language \in Range(LANGUAGES) :
    \E docs \in similarity_search(top_k) :
      \E llmOk \in IF EmptyRetrieval(docs) \/ language # "Auto"
                     THEN {TRUE} ELSE BOOLEAN :
        /\ rag_chain = Handle
        /\ language = "Auto" \/ Len(docs) <= 1
        /\ resp' = ask(docs, language, llmOk)
        /\ UNCHANGED <<collExists, entries, vectorstore, rag_chain, apiKey,
                       nextId, uploads>>

\* --------------------------------------------------- process (re)start
\* the module-level globals are None again; the collection persists
Restart ==
  /\ vectorstore' = None
  /\ rag_chain' = None
  /\ resp' = NoResp
  /\ UNCHANGED <<collExists, entries, apiKey, nextId, uploads>>

Next ==
  \/ UploadRejected
  \/ upload_document
  \/ query_rag
  \/ clear_documents
  \/ Ask
  \/ Restart

Spec == Init /\ [][Next]_vars

\* ================================================================ claims

\* C1: an /upload step never removes an index entry, and an upload that
\* answers 200 leaves a collection that holds the earlier entries followed
\* by the chunks of this upload, whichever bootstrap branch it took.
C1_UploadsAccumulate ==
  [][resp'.op = "upload" =>
       /\ \A i \in 1..Len(entries) : entries[i] \in Range(entries')
       /\ resp'.status = 200 =>
            /\ collExists'
            /\ entries' = entries \o resp'.chunks]_vars

\* a second upload extended a collection that already held another upload
C1_Witness ==
  /\ resp.op = "upload"
  /\ resp.status = 200
  /\ resp.branch = "load_add"
  /\ Len(entries) > Len(resp.chunks)

\* C2: no chunk retrieved by an ask that serves a query of tenant t1 was
\* uploaded under another tenant id (ask is given no tenant, so any ask may
\* be the one serving t1).
C2_TenantIsolation ==
  resp.op = "ask" =>
    \A i \in DOMAIN resp.docs : resp.docs[i].user \in {"t1", NoKey}

\* C3: for every label [i] of the context there is a source entry with
\* id = i whose source is the source of the chunk labelled [i].
C3_CitationConsistency ==
  (resp.op = "ask" /\ resp.status = 200 /\ resp.docs # <<>>) =>
    \A i \in DOMAIN resp.labels :
      \E j \in DOMAIN resp.sources :
        /\ resp.sources[j].id = resp.labels[i].label
        /\ resp.sources[j].source = resp.labels[i].source

\* C4: an ask whose retrieval is empty returns the fixed answer with no
\* sources and without a call of the generative model; the model is called
\* only by an ask with a non-empty retrieval.
C4_EmptyRetrievalGuard ==
  /\ (resp.op = "ask" /\ resp.docs = <<>>) =>
        /\ resp.status = 200
        /\ resp.answer = NoRelevantInfo
        /\ resp.sources = <<>>
        /\ ~resp.generated
  /\ resp.generated => (resp.op = "ask" /\ resp.docs # <<>>)

\* an ask over a collection that has entries retrieved nothing
C4_Witness ==
  /\ resp.op = "ask"
  /\ resp.docs = <<>>
  /\ entries # <<>>
  /\ resp.answer = NoRelevantInfo

\* C5: a /query issued while the collection is absent or holds no entries
\* is answered with "No documents uploaded yet".
C5_NoDocumentsSignal ==
  (resp.op = "query" /\ (~collExists \/ entries = <<>>)) =>
    (resp.status = 400 /\ resp.detail = NoDocumentsYet)

\* C6: a /query whose load of the index raised because the backend is
\* unavailable is not answered with "No documents uploaded yet".
C6_BackendErrorDistinct ==
  (resp.op = "query" /\ resp.cause = "BackendError") =>
    resp.detail # NoDocumentsYet

\* C7: the prompt of an ask with a language other than "Auto" carries the
\* strict directive for that language; "Auto" carries the directive to
\* answer in the language of the question.
C7_LanguageDirective ==
  (resp.op = "ask" /\ resp.rule # <<>>) =>
    IF resp.language = "Auto"
      THEN resp.rule[1].kind = "same_as_question"
      ELSE /\ resp.rule[1].kind = "strict"
           /\ resp.rule[1].language = resp.language

\* C8: after a /clear that answers 200 no entry tagged with the tenant of
\* the call (the default tenant when none is given) remains.
C8_ClearRemovesTenant ==
  (resp.op = "clear" /\ resp.status = 200) =>
    LET tenant == IF resp.user \in {None, ""} THEN DefaultTenant ELSE resp.user
    IN \A i \in 1..Len(entries) : entries[i].user # tenant

\* index of the first retrieved chunk of a source
FirstIndex(docs, src) ==
  CHOOSE i \in 1..Len(docs) :
    /\ docs[i].source = src
    /\ \A k \in 1..(i - 1) : docs[k].source # src

\* C9: the sources of an answered ask are one entry per distinct source of
\* the retrieved chunks, in order of first appearance, with ids 1..n, each
\* preview that of the first retrieved chunk of the source, at most top_k.
C9_SourceList ==
  (resp.op = "ask" /\ resp.status = 200 /\ resp.docs # <<>>) =>
    LET docs == resp.docs
        sources == resp.sources
    IN /\ Len(sources) <= top_k
       /\ { sources[j].source : j \in 1..Len(sources) }
            = { docs[i].source : i \in 1..Len(docs) }
       /\ \A j \in 1..Len(sources) :
            /\ sources[j].id = j
            /\ LET d == docs[FirstIndex(docs, sources[j].source)]
               IN sources[j].preview
                    = [chunk |-> d.id, len |-> IF d.len > 200 THEN 200 ELSE d.len]
       /\ \A j, k \in 1..Len(sources) :
            j < k => FirstIndex(docs, sources[j].source)
                       < FirstIndex(docs, sources[k].source)

\* a source retrieved twice is listed once, after it another source
C9_Witness ==
  /\ resp.op = "ask"
  /\ resp.status = 200
  /\ Len(resp.docs) = 3
  /\ Len(resp.sources) = 2
  /\ resp.docs[1].source = resp.docs[3].source
  /\ resp.docs[1].len > PreviewLen

\* C10: (in a deployment whose OPENAI_API_KEY is set) the vectorstore
\* handle is set only if the rag_chain handle is set.
C10_HandlesPaired == apiKey => (vectorstore # None => rag_chain # None)
====
